---- MODULE Spec2Model ----
(***************************************************************************)
(* Model of the dataset endpoint of the equipment visualizer backend       *)
(* (src/api/views.py, models.py, serializers.py): the upload handler with  *)
(* its validation, aggregation, persistence and retention pruning, the     *)
(* history listing, the summary, and the update and destroy actions the    *)
(* viewset inherits from ModelViewSet; the page layout of generate_pdf;    *)
(* and the upload controls of the desktop client                           *)
(* (src/desktop-app/main.py).                                              *)
(*                                                                         *)
(* The database runs in autocommit mode (no transaction.atomic in the      *)
(* handler), so every ORM call is a step of its own and an exception       *)
(* between two calls leaves the effects of the first.  Every storage and   *)
(* database call may raise; a NaN float may be rejected by the database    *)
(* (SQLite binds NaN as NULL, the columns are NOT NULL) or accepted        *)
(* (PostgreSQL), which the model leaves open.                              *)
(***************************************************************************)
EXTENDS Integers, Sequences, FiniteSets, TLC

VARIABLES
    datasets,    \* rows of EquipmentDataset
    equipments,  \* rows of Equipment
    files,       \* the file storage: the stored files, each a path and an inode
    nextIno,     \* next inode of the file storage
    nextId,      \* next primary key of EquipmentDataset
    now,         \* the clock read by auto_now_add
    served,      \* number of requests received so far
    pc,          \* per request slot: position in the upload handler
    req,         \* per request slot: the request being (or last) handled
    df,          \* per request slot: the parsed DataFrame
    stats,       \* per request slot: total_count and the three means
    dataset,     \* per request slot: the instance returned by objects.create
    old,         \* per request slot: old_datasets still to be pruned
    resp,        \* per request slot: the response returned
    pre,         \* per request slot: store contents when the request arrived
    trace,       \* per request slot: the positions the request went through
    faults,      \* storage and database errors raised so far
    uploads,     \* the dataset and the file of every upload answered 201, oldest first
    clean,       \* TRUE while every change came from an upload answered 201
    deleted,     \* per request slot: keys of the dataset rows its pruning deleted
    canvas,      \* generate_pdf: the canvas p with the position y
    window       \* desktop client: the main window with its upload threads

vars == <<datasets, equipments, files, nextIno, nextId, now, served, pc, req, df, stats,
          dataset, old, resp, pre, trace, faults, uploads, clean, deleted, canvas, window>>

----------------------------------------------------------------------------
(* Bounds and program constants *)

KEEP == 5          \* the slice [5:] / [:5]
MaxRequests == 2   \* requests served in one run
MaxFaults == 2     \* storage and database errors raised in one run
Procs == {1, 2}    \* request slots (worker threads)

----------------------------------------------------------------------------
(* Floats: a rational num/den in lowest terms; den = 0 is NaN *)

NaN == [num |-> 0, den |-> 0]
IsNaN(x) == x.den = 0

RECURSIVE GCD(_, _)
GCD(a, b) == IF b = 0 THEN a ELSE GCD(b, a % b)

Frac(n, d) ==
    IF d = 0 THEN NaN
    ELSE LET g == GCD(n, d) IN [num |-> n \div g, den |-> d \div g]

Float(n) == [num |-> n, den |-> 1]

----------------------------------------------------------------------------
(* File names are character sequences *)

CsvSuffix == <<".", "c", "s", "v">>
NameCsv == <<"a", ".", "c", "s", "v">>
NameUpper == <<"a", ".", "C", "S", "V">>
NameTxt == <<"a", ".", "t", "x", "t">>
NameB == <<"b", ".", "c", "s", "v">>

EndsWith(s, suf) ==
    /\ Len(s) >= Len(suf)
    /\ SubSeq(s, Len(s) - Len(suf) + 1, Len(s)) = suf

----------------------------------------------------------------------------
(* CSV files.  A cell is a number, a text that is no number, or one of the *)
(* texts read_csv takes for a missing value ("", "N/A", "null", ...).      *)

Num(n) == [kind |-> "num", val |-> n]
Text == [kind |-> "text", val |-> 0]
NA == [kind |-> "na", val |-> 0]
Str(s) == [kind |-> "str", val |-> s]

required_cols == <<"Equipment Name", "Type", "Flowrate", "Pressure", "Temperature">>

Csv(h, r) == [empty |-> FALSE, header |-> h, rows |-> r]
ZeroBytes == [empty |-> TRUE, header |-> <<>>, rows |-> <<>>]

RowPump == <<Str("P1"), Str("Pump"), Num(10), Num(2), Num(30)>>
RowValve == <<Str("V1"), Str("Valve"), Num(20), Num(5), Num(50)>>

Good1 == Csv(required_cols, <<RowPump>>)
Good3 == Csv(required_cols, <<RowPump, RowValve, RowPump>>)
HeaderOnly == Csv(required_cols, <<>>)
NoPressure == Csv(<<"Type", "Equipment Name", "Flowrate", "pressure", "Temperature">>,
                  <<<<Str("Pump"), Str("P1"), Num(10), Num(2), Num(30)>>>>)
NoTypeNoPressure == Csv(<<"Temperature", "Notes", "Equipment Name", "Flowrate">>,
                        <<<<Num(30), Str("x"), Str("P1"), Num(10)>>>>)
TypeTwice == Csv(<<"Equipment Name", "Type", "Type", "Flowrate", "Temperature">>,
                 <<<<Str("P1"), Str("Pump"), Str("Pump"), Num(10), Num(30)>>>>)
TextCell == Csv(required_cols,
                <<RowPump, <<Str("V1"), Str("Valve"), Text, Num(5), Num(50)>>>>)
NACell == Csv(required_cols,
              <<RowPump, <<Str("V1"), Str("Valve"), Num(20), NA, Num(50)>>>>)

File(n, c) == [present |-> TRUE, name |-> n, csv |-> c]
NoFile == [present |-> FALSE, name |-> <<>>, csv |-> ZeroBytes]

UploadFiles ==
    {NoFile, File(NameTxt, Good1), File(NameUpper, Good1),
     File(NameCsv, ZeroBytes), File(NameCsv, HeaderOnly), File(NameCsv, NoPressure),
     File(NameCsv, NoTypeNoPressure), File(NameCsv, TypeTwice),
     File(NameCsv, TextCell), File(NameCsv, NACell),
     File(NameCsv, Good1), File(NameB, Good3)}

----------------------------------------------------------------------------
(* pandas: columns, missing columns, mean *)

Range(s) == {s[i] : i \in DOMAIN s}

SeqMin(a, b) == IF a < b THEN a ELSE b
SeqMax(a, b) == IF a > b THEN a ELSE b

IndexOf(h, c) == CHOOSE i \in DOMAIN h : h[i] = c /\ \A j \in DOMAIN h : h[j] = c => i <= j

Column(csv, c) == [i \in DOMAIN csv.rows |-> csv.rows[i][IndexOf(csv.header, c)]]

\* df.columns: read_csv labels a column with its header name, and a name
\* that occurred dup times before with the name followed by "." and dup
Columns(header) ==
    [i \in DOMAIN header |->
        [name |-> header[i],
         dup |-> Cardinality({j \in 1..(i - 1) : header[j] = header[i]})]]

Label(c) == [name |-> c, dup |-> 0]

\* mutant of MissingCols: the first missing column only
MissingColsFirst(csv) ==
    LET m == SelectSeq(required_cols, LAMBDA c : Label(c) \notin Range(Columns(csv.header)))
    IN  IF m = <<>> THEN m ELSE <<Head(m)>>

\* [col for col in required_cols if col not in df.columns]
MissingCols(csv) ==
    SelectSeq(required_cols, LAMBDA c : Label(c) \notin Range(Columns(csv.header)))

RECURSIVE SumVals(_)
SumVals(cells) == IF cells = <<>> THEN 0 ELSE Head(cells).val + SumVals(Tail(cells))

\* a column holding a text is read with object dtype, and Series.mean() of
\* it raises TypeError
MeanRaises(cells) == \E i \in DOMAIN cells : cells[i].kind = "text"

\* mutant of Mean: integer division
MeanFloor(cells) ==
    LET nums == SelectSeq(cells, LAMBDA x : x.kind = "num")
    IN  IF nums = <<>> THEN NaN ELSE Float(SumVals(nums) \div Len(nums))

\* Series.mean() skips missing values; the mean of no value is NaN
Mean(cells) ==
    LET nums == SelectSeq(cells, LAMBDA x : x.kind = "num")
    IN  Frac(SumVals(nums), Len(nums))

\* float(row[...]): a missing value is already the float NaN
ToFloat(cell) == IF cell.kind = "num" THEN Float(cell.val) ELSE NaN

NumericCols == <<"Flowrate", "Pressure", "Temperature">>

Cells(csv) == {Column(csv, c)[i] : c \in Range(NumericCols), i \in DOMAIN csv.rows}

----------------------------------------------------------------------------
(* The store: ordering, storage names, related records *)

NoPath == [name |-> <<>>, n |-> 0]

\* mutant of Ordered: ordering = ['uploaded_at'], oldest first
RECURSIVE OrderedOldestFirst(_)
OrderedOldestFirst(S) ==
    IF S = {} THEN <<>>
    ELSE LET d == CHOOSE x \in S : \A y \in S : x.uploaded_at <= y.uploaded_at
         IN  <<d>> \o OrderedOldestFirst(S \ {d})

\* Meta.ordering = ['-uploaded_at']
RECURSIVE Ordered(_)
Ordered(S) ==
    IF S = {} THEN <<>>
    ELSE LET d == CHOOSE x \in S : \A y \in S : y.uploaded_at <= x.uploaded_at
         IN  <<d>> \o Ordered(S \ {d})

Path(f) == [name |-> f.name, n |-> f.n]

Exists(path) == \E f \in files : Path(f) = path

\* Storage.get_available_name: the name itself, or the name with a suffix
\* no stored file has
AvailableName(name) ==
    [name |-> name,
     n |-> CHOOSE k \in 0..Cardinality(files) :
             /\ ~Exists([name |-> name, n |-> k])
             /\ \A j \in 0..(k - 1) : Exists([name |-> name, n |-> j])]

\* the inode of the file at a path, 0 when there is none
InodeAt(path) == IF Exists(path) THEN (CHOOSE f \in files : Path(f) = path).ino ELSE 0

\* Storage.save(name, content): a new file at the path
StorageSave(path) == files \cup {[name |-> path.name, n |-> path.n, ino |-> nextIno]}

\* Storage.delete(name): no error when the path does not exist
StorageDelete(path) == {f \in files : Path(f) # path}

EquipmentsOf(id) == {e \in equipments : e.dataset = id}

RECURSIVE BySeq(_)
BySeq(S) ==
    IF S = {} THEN <<>>
    ELSE LET e == CHOOSE x \in S : \A y \in S : x.seq <= y.seq
         IN  <<e>> \o BySeq(S \ {e})

NoDataset ==
    [id |-> 0, name |-> <<>>, uploaded_at |-> 0, file |-> NoPath, total_count |-> 0,
     avg_flowrate |-> NaN, avg_pressure |-> NaN, avg_temperature |-> NaN]

NoStats ==
    [total_count |-> 0, avg_flowrate |-> NaN, avg_pressure |-> NaN,
     avg_temperature |-> NaN]

Ids == {d.id : d \in datasets}

Row(id) == CHOOSE d \in datasets : d.id = id

----------------------------------------------------------------------------
(* Serializers *)

EquipmentSerializer(e) ==
    [seq |-> e.seq, name |-> e.name, type |-> e.type, flowrate |-> e.flowrate,
     pressure |-> e.pressure, temperature |-> e.temperature]

DatasetSummarySerializer(d) ==
    [id |-> d.id, name |-> d.name, uploaded_at |-> d.uploaded_at,
     total_count |-> d.total_count, avg_flowrate |-> d.avg_flowrate,
     avg_pressure |-> d.avg_pressure, avg_temperature |-> d.avg_temperature,
     equipment_count |-> Cardinality(EquipmentsOf(d.id))]

DatasetDetailSerializer(d) ==
    [id |-> d.id, name |-> d.name, uploaded_at |-> d.uploaded_at,
     total_count |-> d.total_count, avg_flowrate |-> d.avg_flowrate,
     avg_pressure |-> d.avg_pressure, avg_temperature |-> d.avg_temperature,
     equipments |-> LET es == BySeq(EquipmentsOf(d.id))
                    IN  [i \in DOMAIN es |-> EquipmentSerializer(es[i])]]

----------------------------------------------------------------------------
(* Requests and responses *)

UploadRequest(f) == [op |-> "upload", file |-> f, id |-> 0, data |-> <<>>]
HistoryRequest == [op |-> "history", file |-> NoFile, id |-> 0, data |-> <<>>]
DestroyRequest(id) == [op |-> "destroy", file |-> NoFile, id |-> id, data |-> <<>>]
UpdateRequest(id, data) == [op |-> "update", file |-> NoFile, id |-> id, data |-> data]
SummaryRequest(id) == [op |-> "summary", file |-> NoFile, id |-> id, data |-> <<>>]
NoRequest == [op |-> "none", file |-> NoFile, id |-> 0, data |-> <<>>]

Response(status, error, detail, body) ==
    [status |-> status, error |-> error, detail |-> detail, body |-> body,
     missing |-> <<>>, found |-> <<>>]
NoResponse == Response(0, "", "", <<>>)

NoDf == ZeroBytes

Snapshot == [datasets |-> datasets, equipments |-> equipments, files |-> files]

Resting(p) == pc[p] \in {"idle", "done", "failed"}
Quiescent == \A p \in Procs : Resting(p)

----------------------------------------------------------------------------
(* Initial state: a database holding the result of n <= KEEP earlier       *)
(* uploads of a one-row file, each answered 201, and no request in         *)
(* progress.                                                               *)

\* no report is being generated; the client is not running
NoMark == [kind |-> "none", page |-> 0, y |-> 0]
NoCanvas == [pc |-> "none", y |-> 0, page |-> 0, types |-> 0, rows |-> 0, count |-> 0,
             drawn |-> 0, last |-> NoMark]
NoWindow == [open |-> FALSE, selected_file |-> FALSE, upload_btn |-> FALSE,
             upload_thread |-> 0, threads |-> <<>>, events |-> <<>>]

SeedDataset(i) ==
    [id |-> i, name |-> NameCsv, uploaded_at |-> i,
     file |-> [name |-> NameCsv, n |-> i - 1], total_count |-> 1,
     avg_flowrate |-> Float(10), avg_pressure |-> Float(2),
     avg_temperature |-> Float(30)]

SeedEquipment(i) ==
    [dataset |-> i, seq |-> 1, name |-> "P1", type |-> "Pump", flowrate |-> Float(10),
     pressure |-> Float(2), temperature |-> Float(30)]

\* the database and the storage after n uploads, no request in progress
Store(n) ==
    /\ datasets = {SeedDataset(i) : i \in 1..n}
    /\ equipments = {SeedEquipment(i) : i \in 1..n}
    /\ files = {[name |-> NameCsv, n |-> i - 1, ino |-> i] : i \in 1..n}
    /\ nextIno = n + 1
    /\ nextId = n + 1
    /\ now = n + 1
    /\ served = 0
    /\ pc = [p \in Procs |-> "idle"]
    /\ req = [p \in Procs |-> NoRequest]
    /\ df = [p \in Procs |-> NoDf]
    /\ stats = [p \in Procs |-> NoStats]
    /\ dataset = [p \in Procs |-> NoDataset]
    /\ old = [p \in Procs |-> <<>>]
    /\ resp = [p \in Procs |-> NoResponse]
    /\ pre = [p \in Procs |-> [datasets |-> {}, equipments |-> {}, files |-> {}]]
    /\ trace = [p \in Procs |-> <<>>]
    /\ faults = 0
    /\ uploads = [i \in 1..n |-> [row |-> SeedDataset(i), ino |-> i]]
    /\ clean = TRUE
    /\ deleted = [p \in Procs |-> {}]

storeVars == <<datasets, equipments, files, nextIno, nextId, now, served, pc, req, df, stats,
               dataset, old, resp, pre, trace, faults, uploads, clean, deleted>>

Init ==
    /\ \E n \in 0..KEEP : Store(n)
    /\ canvas = NoCanvas
    /\ window = NoWindow

----------------------------------------------------------------------------
(* The upload handler, one action per call that can raise or return *)

\* errors of the environment: the storage (OSError) or the database
\* (OperationalError) fails
Errors == {"OSError", "OperationalError"}

\* the outcomes of a call: it succeeds, or raises one of the errors given
Outcomes(errs) == {"ok"} \cup (IF faults < MaxFaults THEN errs ELSE errs \ Errors)

\* return Response({'error': ...}, status=400): the handler's locals are dropped
Fail(p, r) ==
    /\ pc' = [pc EXCEPT ![p] = "failed"]
    /\ resp' = [resp EXCEPT ![p] = r]
    /\ trace' = [trace EXCEPT ![p] = Append(@, "failed")]
    /\ df' = [df EXCEPT ![p] = NoDf]
    /\ stats' = [stats EXCEPT ![p] = NoStats]
    /\ dataset' = [dataset EXCEPT ![p] = NoDataset]
    /\ old' = [old EXCEPT ![p] = <<>>]
    /\ faults' = IF r.detail \in Errors THEN faults + 1 ELSE faults
    /\ clean' = FALSE

\* except Exception as e: 'Error processing CSV: ' + str(e)
ProcessingError(e) == Response(400, "Error processing CSV", e, <<>>)

Goto(p, label) ==
    /\ pc' = [pc EXCEPT ![p] = label]
    /\ trace' = [trace EXCEPT ![p] = Append(@, label)]

\* a request arrives at the upload action
Receive(p, f) ==
    /\ Resting(p)
    /\ served < MaxRequests
    /\ served' = served + 1
    /\ req' = [req EXCEPT ![p] = UploadRequest(f)]
    /\ resp' = [resp EXCEPT ![p] = NoResponse]
    /\ pre' = [pre EXCEPT ![p] = Snapshot]
    /\ pc' = [pc EXCEPT ![p] = "receiving"]
    /\ trace' = [trace EXCEPT ![p] = <<"receiving">>]
    /\ UNCHANGED <<datasets, equipments, files, nextIno, nextId, now, df, stats, dataset, old,
                   faults, uploads, clean>>
    /\ deleted' = [deleted EXCEPT ![p] = {}]
    /\ UNCHANGED <<canvas, window>>

\* file = request.FILES.get('file') and the two early returns
CheckFile(p) ==
    /\ pc[p] = "receiving"
    /\ LET f == req[p].file IN
         IF ~f.present
         THEN Fail(p, Response(400, "No file provided", "", <<>>))
         ELSE IF ~EndsWith(f.name, CsvSuffix)
         THEN Fail(p, Response(400, "Only CSV files are allowed", "", <<>>))
         ELSE /\ Goto(p, "validating")
              /\ UNCHANGED <<resp, df, stats, dataset, old, clean, faults>>
    /\ UNCHANGED <<datasets, equipments, files, nextIno, nextId, now, served, req, pre, uploads>>
    /\ UNCHANGED <<deleted, canvas, window>>

\* df = pd.read_csv(file) and the required-column check
Validate(p) ==
    /\ pc[p] = "validating"
    /\ LET csv == req[p].file.csv IN
         IF csv.empty
         THEN Fail(p, Response(400, "CSV file is empty", "", <<>>))
         ELSE IF MissingCols(csv) # <<>>
         THEN Fail(p, [Response(400, "Missing required columns", "", <<>>)
                          EXCEPT !.missing = MissingCols(csv),
                                 !.found = Columns(csv.header)])
         ELSE /\ Goto(p, "aggregating")
              /\ df' = [df EXCEPT ![p] = csv]
              /\ UNCHANGED <<resp, stats, dataset, old, clean, faults>>
    /\ UNCHANGED <<datasets, equipments, files, nextIno, nextId, now, served, req, pre, uploads>>
    /\ UNCHANGED <<deleted, canvas, window>>

\* total_count = len(df) and the three means
Aggregate(p) ==
    /\ pc[p] = "aggregating"
    /\ IF \E c \in Range(NumericCols) : MeanRaises(Column(df[p], c))
       THEN Fail(p, ProcessingError("TypeError"))
       ELSE /\ Goto(p, "persist_file")
            /\ stats' = [stats EXCEPT ![p] =
                           [total_count |-> Len(df[p].rows),
                            avg_flowrate |-> Mean(Column(df[p], "Flowrate")),
                            avg_pressure |-> Mean(Column(df[p], "Pressure")),
                            avg_temperature |-> Mean(Column(df[p], "Temperature"))]]
            /\ UNCHANGED <<resp, df, dataset, old, clean, faults>>
    /\ UNCHANGED <<datasets, equipments, files, nextIno, nextId, now, served, req, pre, uploads>>
    /\ UNCHANGED <<deleted, canvas, window>>

\* objects.create, first half: FileField.pre_save writes the file to storage
PersistFile(p) ==
    /\ pc[p] = "persist_file"
    /\ \E outcome \in Outcomes({"OSError"}) :
         IF outcome = "ok"
         THEN LET path == AvailableName(req[p].file.name) IN
              /\ files' = StorageSave(path)
              /\ nextIno' = nextIno + 1
              /\ dataset' = [dataset EXCEPT ![p] =
                    [id |-> 0, name |-> req[p].file.name, uploaded_at |-> 0,
                     file |-> path, total_count |-> stats[p].total_count,
                     avg_flowrate |-> stats[p].avg_flowrate,
                     avg_pressure |-> stats[p].avg_pressure,
                     avg_temperature |-> stats[p].avg_temperature]]
              /\ Goto(p, "persist_meta")
              /\ UNCHANGED <<resp, df, stats, old, clean, faults>>
         ELSE /\ Fail(p, ProcessingError(outcome))
              /\ UNCHANGED <<files, nextIno>>
    /\ UNCHANGED <<datasets, equipments, nextId, now, served, req, pre, uploads>>
    /\ UNCHANGED <<deleted, canvas, window>>

\* an INSERT: a NaN float is stored, or refused as NULL in a NOT NULL column
InsertOutcomes(floats) ==
    Outcomes({"OperationalError"}
                 \cup (IF \E x \in floats : IsNaN(x) THEN {"IntegrityError"} ELSE {}))

\* objects.create, second half: INSERT of the EquipmentDataset row
PersistMeta(p) ==
    /\ pc[p] = "persist_meta"
    /\ \E outcome \in InsertOutcomes({dataset[p].avg_flowrate, dataset[p].avg_pressure,
                                      dataset[p].avg_temperature}) :
         IF outcome = "ok"
         THEN LET row == [dataset[p] EXCEPT !.id = nextId, !.uploaded_at = now] IN
              /\ datasets' = datasets \cup {row}
              /\ dataset' = [dataset EXCEPT ![p] = row]
              /\ nextId' = nextId + 1
              /\ now' = now + 1
              /\ Goto(p, "persist_rows")
              /\ UNCHANGED <<resp, df, stats, old, clean, faults>>
         ELSE /\ Fail(p, ProcessingError(outcome))
              /\ UNCHANGED <<datasets, nextId, now>>
    /\ UNCHANGED <<equipments, files, nextIno, served, req, pre, uploads>>
    /\ UNCHANGED <<deleted, canvas, window>>

\* the Equipment objects of lines 90-99
EquipmentObjects(p) ==
    {[dataset |-> dataset[p].id, seq |-> i,
      name |-> Column(df[p], "Equipment Name")[i].val,
      type |-> Column(df[p], "Type")[i].val,
      flowrate |-> ToFloat(Column(df[p], "Flowrate")[i]),
      pressure |-> ToFloat(Column(df[p], "Pressure")[i]),
      temperature |-> ToFloat(Column(df[p], "Temperature")[i])] : i \in DOMAIN df[p].rows}

\* mutant of PersistRows: the error of bulk_create is swallowed and the
\* handler goes on to prune
PersistRowsGoesOn(p) ==
    /\ pc[p] = "persist_rows"
    /\ \E outcome \in
           IF df[p].rows = <<>> THEN {"ok"}
           ELSE InsertOutcomes({ToFloat(c) : c \in Cells(df[p])}) :
         /\ equipments' = IF outcome = "ok" THEN equipments \cup EquipmentObjects(p)
                          ELSE equipments
         /\ faults' = IF outcome \in Errors THEN faults + 1 ELSE faults
         /\ Goto(p, "prune_enum")
         /\ UNCHANGED <<resp, df, stats, dataset, old, clean>>
    /\ UNCHANGED <<datasets, files, nextIno, nextId, now, served, req, pre, uploads>>
    /\ UNCHANGED <<deleted, canvas, window>>

\* Equipment.objects.bulk_create(equipment_objects); an empty list runs no query
PersistRows(p) ==
    /\ pc[p] = "persist_rows"
    /\ \E outcome \in
           IF df[p].rows = <<>> THEN {"ok"}
           ELSE InsertOutcomes({ToFloat(c) : c \in Cells(df[p])}) :
         IF outcome = "ok"
         THEN /\ equipments' = equipments \cup EquipmentObjects(p)
              /\ Goto(p, "prune_enum")
              /\ UNCHANGED <<resp, df, stats, dataset, old, clean, faults>>
         ELSE /\ Fail(p, ProcessingError(outcome))
              /\ UNCHANGED equipments
    /\ UNCHANGED <<datasets, files, nextIno, nextId, now, served, req, pre, uploads>>
    /\ UNCHANGED <<deleted, canvas, window>>

\* mutant of OldDatasets: only the sixth dataset, the slice [5:6]
OldDatasetsOnlyOne ==
    LET all == Ordered(datasets) IN SubSeq(all, KEEP + 1, SeqMin(Len(all), KEEP + 1))

\* mutant of OldDatasets: the slice [4:]
OldDatasetsFromFifth == LET all == Ordered(datasets) IN SubSeq(all, KEEP, Len(all))

\* old_datasets = EquipmentDataset.objects.all()[5:], evaluated by the for loop
OldDatasets == LET all == Ordered(datasets) IN SubSeq(all, KEEP + 1, Len(all))

PruneEnumerate(p) ==
    /\ pc[p] = "prune_enum"
    /\ \E outcome \in Outcomes({"OperationalError"}) :
         IF outcome = "ok"
         THEN /\ old' = [old EXCEPT ![p] = OldDatasets]
              /\ Goto(p, IF OldDatasets = <<>> THEN "respond" ELSE "prune_file")
              /\ UNCHANGED <<resp, df, stats, dataset, clean, faults>>
         ELSE Fail(p, ProcessingError(outcome))
    /\ UNCHANGED <<datasets, equipments, files, nextIno, nextId, now, served, req, pre, uploads>>
    /\ UNCHANGED <<deleted, canvas, window>>

\* Model.save() of an instance with a primary key: UPDATE, or INSERT when no
\* row has that key
Save(rows, inst) == {x \in rows : x.id # inst.id} \cup {inst}

\* mutant of PruneFile: the field is cleared and saved, the stored file is
\* left in the storage
PruneFileKeepsFile(p) ==
    /\ pc[p] = "prune_file"
    /\ LET d == Head(old[p]) IN
         IF d.file = NoPath
         THEN /\ Goto(p, "prune_row")
              /\ UNCHANGED <<files, datasets, old, resp, df, stats, dataset, clean, faults>>
         ELSE \E outcome \in Outcomes({"OSError", "OperationalError"}) :
                CASE outcome = "ok" ->
                       /\ files' = files
                       /\ datasets' = Save(datasets, [d EXCEPT !.file = NoPath])
                       /\ old' = [old EXCEPT ![p] =
                                    <<[d EXCEPT !.file = NoPath]>> \o Tail(@)]
                       /\ Goto(p, "prune_row")
                       /\ UNCHANGED <<resp, df, stats, dataset, clean, faults>>
                  [] outcome = "OSError" ->
                       /\ Fail(p, ProcessingError(outcome))
                       /\ UNCHANGED <<files, datasets>>
                  [] outcome = "OperationalError" ->
                       /\ files' = files
                       /\ Fail(p, ProcessingError(outcome))
                       /\ UNCHANGED datasets
    /\ UNCHANGED <<equipments, nextIno, nextId, now, served, req, pre, uploads>>
    /\ UNCHANGED <<deleted, canvas, window>>

\* old_dataset.file.delete(): nothing for an empty FieldFile; otherwise
\* storage.delete(name), then the field is cleared and the instance saved
PruneFile(p) ==
    /\ pc[p] = "prune_file"
    /\ LET d == Head(old[p]) IN
         IF d.file = NoPath
         THEN /\ Goto(p, "prune_row")
              /\ UNCHANGED <<files, datasets, old, resp, df, stats, dataset, clean, faults>>
         ELSE \E outcome \in Outcomes({"OSError", "OperationalError"}) :
                CASE outcome = "ok" ->
                       /\ files' = StorageDelete(d.file)
                       /\ datasets' = Save(datasets, [d EXCEPT !.file = NoPath])
                       /\ old' = [old EXCEPT ![p] =
                                    <<[d EXCEPT !.file = NoPath]>> \o Tail(@)]
                       /\ Goto(p, "prune_row")
                       /\ UNCHANGED <<resp, df, stats, dataset, clean, faults>>
                  [] outcome = "OSError" ->
                       /\ Fail(p, ProcessingError(outcome))
                       /\ UNCHANGED <<files, datasets>>
                  [] outcome = "OperationalError" ->
                       /\ files' = StorageDelete(d.file)
                       /\ Fail(p, ProcessingError(outcome))
                       /\ UNCHANGED datasets
    /\ UNCHANGED <<equipments, nextIno, nextId, now, served, req, pre, uploads>>
    /\ UNCHANGED <<deleted, canvas, window>>

\* mutant of Delete: the row only, as with on_delete=DO_NOTHING
DeleteNoCascade(id) ==
    /\ datasets' = {x \in datasets : x.id # id}
    /\ equipments' = equipments

\* Model.delete(): the row and, by on_delete=CASCADE, its Equipment rows
Delete(id) ==
    /\ datasets' = {x \in datasets : x.id # id}
    /\ equipments' = {e \in equipments : e.dataset # id}

\* old_dataset.delete(), then the next old dataset or the response
PruneRow(p) ==
    /\ pc[p] = "prune_row"
    /\ \E outcome \in Outcomes({"OperationalError"}) :
         IF outcome = "ok"
         THEN /\ Delete(Head(old[p]).id)
              /\ deleted' = [deleted EXCEPT ![p] = @ \cup ({Head(old[p]).id} \cap Ids)]
              /\ old' = [old EXCEPT ![p] = Tail(@)]
              /\ Goto(p, IF Tail(old[p]) = <<>> THEN "respond" ELSE "prune_file")
              /\ UNCHANGED <<resp, df, stats, dataset, clean, faults>>
         ELSE /\ Fail(p, ProcessingError(outcome))
              /\ UNCHANGED <<datasets, equipments, deleted>>
    /\ UNCHANGED <<files, nextIno, nextId, now, served, req, pre, uploads>>
    /\ UNCHANGED <<canvas, window>>

\* serializer = DatasetDetailSerializer(dataset); return Response(..., 201)
Respond(p) ==
    /\ pc[p] = "respond"
    /\ \E outcome \in Outcomes({"OperationalError"}) :
         IF outcome = "ok"
         THEN /\ resp' = [resp EXCEPT ![p] =
                    Response(201, "", "", <<DatasetDetailSerializer(dataset[p])>>)]
              /\ Goto(p, "done")
              /\ uploads' = Append(uploads, [row |-> dataset[p], ino |-> InodeAt(dataset[p].file)])
              /\ df' = [df EXCEPT ![p] = NoDf]
              /\ stats' = [stats EXCEPT ![p] = NoStats]
              /\ dataset' = [dataset EXCEPT ![p] = NoDataset]
              /\ UNCHANGED <<old, clean, faults>>
         ELSE /\ Fail(p, ProcessingError(outcome))
              /\ UNCHANGED uploads
    /\ UNCHANGED <<datasets, equipments, files, nextIno, nextId, now, served, req, pre>>
    /\ UNCHANGED <<deleted, canvas, window>>

----------------------------------------------------------------------------
(* The other actions of the viewset, each one database call *)

Begin(p, r) ==
    /\ Resting(p)
    /\ served < MaxRequests
    /\ served' = served + 1
    /\ req' = [req EXCEPT ![p] = r]
    /\ pre' = [pre EXCEPT ![p] = Snapshot]
    /\ pc' = [pc EXCEPT ![p] = "idle"]
    /\ trace' = [trace EXCEPT ![p] = <<>>]
    /\ UNCHANGED <<nextIno, nextId, now, df, stats, dataset, old, faults, uploads>>
    /\ deleted' = [deleted EXCEPT ![p] = {}]
    /\ UNCHANGED <<canvas, window>>

NotFound == Response(404, "Not found.", "", <<>>)

\* history: the first five datasets in the default ordering
History(p) ==
    /\ Begin(p, HistoryRequest)
    /\ LET all == Ordered(datasets)
           page == SubSeq(all, 1, IF Len(all) < KEEP THEN Len(all) ELSE KEEP)
       IN  resp' = [resp EXCEPT ![p] =
              Response(200, "", "", [i \in DOMAIN page |-> DatasetSummarySerializer(page[i])])]
    /\ UNCHANGED <<datasets, equipments, files, clean>>

\* round(x, 2): the nearest multiple of 1/100, the even one of two equally near
Round2(x) ==
    IF IsNaN(x) THEN NaN
    ELSE LET q == (100 * x.num) \div x.den
             r == (100 * x.num) % x.den
         IN  Frac(IF 2 * r > x.den \/ (2 * r = x.den /\ q % 2 = 1) THEN q + 1 ELSE q, 100)

\* mutant of TypeDistribution: the count is set, not incremented
RECURSIVE TypeDistributionSetsOne(_)
TypeDistributionSetsOne(es) ==
    IF es = <<>> THEN [t \in {} |-> 0]
    ELSE LET dist == TypeDistributionSetsOne(SubSeq(es, 1, Len(es) - 1))
             eq_type == es[Len(es)].type
         IN  [t \in DOMAIN dist \cup {eq_type} |-> IF t = eq_type THEN 1 ELSE dist[t]]

\* the loop over the records:
\* type_distribution[eq_type] = type_distribution.get(eq_type, 0) + 1
RECURSIVE TypeDistribution(_)
TypeDistribution(es) ==
    IF es = <<>> THEN [t \in {} |-> 0]
    ELSE LET dist == TypeDistribution(SubSeq(es, 1, Len(es) - 1))
             eq_type == es[Len(es)].type
         IN  [t \in DOMAIN dist \cup {eq_type} |->
                IF t = eq_type
                THEN (IF eq_type \in DOMAIN dist THEN dist[eq_type] ELSE 0) + 1
                ELSE dist[t]]

\* summary: get_object(), the type distribution and the records of the dataset
Summary(p, id) ==
    /\ Begin(p, SummaryRequest(id))
    /\ IF id \in Ids
       THEN LET d == Row(id)
                es == BySeq(EquipmentsOf(id))
            IN  resp' = [resp EXCEPT ![p] =
                   Response(200, "", "",
                     <<[id |-> d.id, name |-> d.name, uploaded_at |-> d.uploaded_at,
                        total_count |-> d.total_count,
                        averages |-> [flowrate |-> Round2(d.avg_flowrate),
                                      pressure |-> Round2(d.avg_pressure),
                                      temperature |-> Round2(d.avg_temperature)],
                        type_distribution |-> TypeDistribution(es),
                        equipments |-> [i \in DOMAIN es |-> EquipmentSerializer(es[i])]]>>)]
       ELSE resp' = [resp EXCEPT ![p] = NotFound]
    /\ UNCHANGED <<datasets, equipments, files, clean>>

\* DestroyModelMixin.destroy: get_object(), instance.delete(); the stored
\* file is not touched
Destroy(p, id) ==
    /\ Begin(p, DestroyRequest(id))
    /\ clean' = FALSE
    /\ IF id \in Ids
       THEN /\ Delete(id)
            /\ resp' = [resp EXCEPT ![p] = Response(204, "", "", <<>>)]
       ELSE /\ resp' = [resp EXCEPT ![p] = NotFound]
            /\ UNCHANGED <<datasets, equipments>>
    /\ UNCHANGED files

\* the writable fields of DatasetSummarySerializer
WritableFields == {"name", "total_count", "avg_flowrate", "avg_pressure", "avg_temperature"}

Patches ==
    {[name |-> NameB], [total_count |-> 7, avg_flowrate |-> Float(1)]}

Patched(d, data) ==
    [k \in DOMAIN d |-> IF k \in DOMAIN data \cap WritableFields THEN data[k] ELSE d[k]]

\* UpdateModelMixin.partial_update: get_object(), serializer.save()
Update(p, id, data) ==
    /\ Begin(p, UpdateRequest(id, data))
    /\ clean' = FALSE
    /\ IF id \in Ids
       THEN /\ datasets' = Save(datasets, Patched(Row(id), data))
            /\ resp' = [resp EXCEPT ![p] =
                  Response(200, "", "", <<DatasetSummarySerializer(Patched(Row(id), data))>>)]
       ELSE /\ resp' = [resp EXCEPT ![p] = NotFound]
            /\ UNCHANGED datasets
    /\ UNCHANGED <<equipments, files>>

----------------------------------------------------------------------------
(* Requests are handled one at a time: a request is taken only when no     *)
(* other is in progress, in the first slot.                                *)

Step(p) ==
    \/ CheckFile(p)
    \/ Validate(p)
    \/ Aggregate(p)
    \/ PersistFile(p)
    \/ PersistMeta(p)
    \/ PersistRows(p)
    \/ PruneEnumerate(p)
    \/ PruneFile(p)
    \/ PruneRow(p)
    \/ Respond(p)

\* the keys a client asks for: the oldest and the newest dataset, and a key
\* no dataset has
Targets ==
    {id \in Ids : \/ \A x \in datasets : Row(id).uploaded_at <= x.uploaded_at
                   \/ \A y \in datasets : Row(id).uploaded_at >= y.uploaded_at}
        \cup {nextId}

UploadArrives == Quiescent /\ \E f \in UploadFiles : Receive(1, f)

HistoryArrives == Quiescent /\ History(1)

SummaryArrives == Quiescent /\ \E id \in Targets : Summary(1, id)

DestroyArrives == Quiescent /\ \E id \in Targets : Destroy(1, id)

UpdateArrives == Quiescent /\ \E id \in Targets, data \in Patches : Update(1, id, data)

Next ==
    \/ UploadArrives
    \/ HistoryArrives
    \/ SummaryArrives
    \/ DestroyArrives
    \/ UpdateArrives
    \/ \E p \in Procs : Step(p)

Spec == Init /\ [][Next]_vars

----------------------------------------------------------------------------
(* Uploads handled concurrently: the server runs the handler in several    *)
(* worker threads, nothing in the handler takes a lock or opens a          *)
(* transaction, so the calls of two uploads interleave in any order.       *)

UploadArrivesAnytime == \E p \in Procs, f \in UploadFiles : Receive(p, f)

ConcurrentNext ==
    \/ UploadArrivesAnytime
    \/ \E p \in Procs : Step(p)

ConcurrentSpec == Init /\ [][ConcurrentNext]_vars

----------------------------------------------------------------------------
(* generate_pdf: the layout of the report.  Lengths are in twentieths of   *)
(* an inch, the unit in which every length of the handler is a whole       *)
(* number.  The canvas keeps the position y, the page being drawn, the     *)
(* type lines and the equipment rows still to draw, the number of records  *)
(* of the dataset, the rows drawn and the baseline of the last drawString. *)

MaxRows == 72    \* records of the dataset reported
MaxTypes == 30   \* distinct types among them

inch == 20
height == 11 * inch      \* width, height = letter
Tenths(k) == (k * inch) \div 10
Hundredths(k) == (k * inch) \div 100

\* p.showPage(); y = height - 1*inch
NextPage(c) == [c EXCEPT !.page = @ + 1, !.y = height - inch]

Mark(kind, c) == [kind |-> kind, page |-> c.page, y |-> c.y]

\* the title, the dataset lines, the summary statistics and the heading of
\* the type distribution, down to the first type line
DrawHead ==
    /\ canvas.pc = "head"
    /\ LET heading == height - Tenths(15) - Tenths(3) - Tenths(3) - Tenths(5) - Tenths(3)
                         - Hundredths(25) - Hundredths(25) - Hundredths(25) - Tenths(5)
       IN  canvas' = [canvas EXCEPT !.pc = "types",
                                    !.last = [kind |-> "heading", page |-> 1, y |-> heading],
                                    !.y = heading - Tenths(3)]
    /\ UNCHANGED <<storeVars, window>>

\* for eq_type, count in sorted(type_dist.items()): one line, no page check
DrawType ==
    /\ canvas.pc = "types"
    /\ canvas.types > 0
    /\ canvas' = [canvas EXCEPT !.last = Mark("type", canvas),
                                !.y = @ - Hundredths(25),
                                !.types = @ - 1]
    /\ UNCHANGED <<storeVars, window>>

\* "Equipment Details", on a new page if y < 2*inch, the column names and
\* the rule under them
TableHeader ==
    /\ canvas.pc = "types"
    /\ canvas.types = 0
    /\ LET c1 == [canvas EXCEPT !.y = @ - Tenths(3)]
           c2 == IF c1.y < 2 * inch THEN NextPage(c1) ELSE c1
           c3 == [c2 EXCEPT !.y = @ - Tenths(3)]
       IN  canvas' = [c3 EXCEPT !.pc = "rows",
                                !.last = Mark("columns", c3),
                                !.y = @ - Hundredths(5) - Tenths(2)]
    /\ UNCHANGED <<storeVars, window>>

\* mutant of DrawRow: no page check
DrawRowNoBreak ==
    /\ canvas.pc = "rows"
    /\ canvas.rows > 0
    /\ canvas' = [canvas EXCEPT !.last = Mark("row", canvas),
                                !.y = @ - Tenths(2),
                                !.rows = @ - 1,
                                !.drawn = @ + 1]
    /\ UNCHANGED <<storeVars, window>>

\* for eq in equipments: a new page if y < 1*inch, then the five cells of
\* the row at y
DrawRow ==
    /\ canvas.pc = "rows"
    /\ canvas.rows > 0
    /\ LET c == IF canvas.y < inch THEN NextPage(canvas) ELSE canvas
       IN  canvas' = [c EXCEPT !.last = Mark("row", c),
                               !.y = @ - Tenths(2),
                               !.rows = @ - 1,
                               !.drawn = @ + 1]
    /\ UNCHANGED <<storeVars, window>>

\* the footer at 0.5*inch, p.showPage(), p.save()
Footer ==
    /\ canvas.pc = "rows"
    /\ canvas.rows = 0
    /\ canvas' = [canvas EXCEPT !.pc = "saved",
                                !.last = [kind |-> "footer", page |-> canvas.page,
                                          y |-> Tenths(5)]]
    /\ UNCHANGED <<storeVars, window>>

\* the report of a dataset of n records of t distinct types
NewCanvas(n, t) ==
    [pc |-> "head", y |-> 0, page |-> 1, types |-> t, rows |-> n, count |-> n,
     drawn |-> 0, last |-> NoMark]

ReportInit ==
    /\ Store(0)
    /\ window = NoWindow
    /\ \E n \in 0..MaxRows, t \in 0..MaxTypes :
         /\ t <= n
         /\ n > 0 => t > 0
         /\ canvas = NewCanvas(n, t)

ReportNext ==
    \/ DrawHead
    \/ DrawType
    \/ TableHeader
    \/ DrawRow
    \/ Footer

ReportSpec == ReportInit /\ [][ReportNext]_vars

----------------------------------------------------------------------------
(* The desktop client (src/desktop-app/main.py): the upload controls of    *)
(* the main window and its upload threads.  The slots of the window run in *)
(* the GUI thread, one at a time; a signal emitted by an upload thread is  *)
(* queued for the GUI thread.  A click reaches upload_file only while the  *)
(* button is enabled.                                                      *)

MaxUploads == 3   \* upload threads started in one run

\* what requests.post and response.json() do in UploadThread.run
Replies == {"201", "201, body no JSON", "400", "exception"}

Thread(state, emitted) == [state |-> state, emitted |-> emitted]

NewWindow == [open |-> TRUE, selected_file |-> FALSE, upload_btn |-> FALSE,
              upload_thread |-> 0, threads |-> <<>>, events |-> <<>>]

\* the file dialog returns a path, or nothing when it is cancelled
browse_file ==
    /\ window.open
    /\ \E file_path \in BOOLEAN :
         IF file_path
         THEN window' = [window EXCEPT !.selected_file = TRUE, !.upload_btn = TRUE]
         ELSE UNCHANGED window
    /\ UNCHANGED <<storeVars, canvas>>

\* the click on the upload button
upload_file ==
    /\ window.open
    /\ window.upload_btn
    /\ Len(window.threads) < MaxUploads
    /\ IF ~window.selected_file
       THEN UNCHANGED window
       ELSE window' = [window EXCEPT !.upload_btn = FALSE,
                                     !.threads = Append(@, Thread("running", <<>>)),
                                     !.upload_thread = Len(window.threads) + 1]
    /\ UNCHANGED <<storeVars, canvas>>

\* UploadThread.run: upload_complete for a 201 whose body is JSON,
\* upload_error for another status and for every exception
run ==
    /\ window.open
    /\ \E t \in DOMAIN window.threads, reply \in Replies :
         /\ window.threads[t].state = "running"
         /\ LET signal == IF reply = "201" THEN "upload_complete" ELSE "upload_error"
            IN  window' = [window EXCEPT
                    !.threads[t] = Thread("finished", Append(@.emitted, signal)),
                    !.events = Append(@, [signal |-> signal, thread |-> t])]
    /\ UNCHANGED <<storeVars, canvas>>

\* the queued upload_complete signal is delivered
on_upload_complete ==
    /\ window.open
    /\ window.events # <<>>
    /\ Head(window.events).signal = "upload_complete"
    /\ window' = [window EXCEPT !.upload_btn = TRUE, !.events = Tail(@)]
    /\ UNCHANGED <<storeVars, canvas>>

\* the queued upload_error signal is delivered
on_upload_error ==
    /\ window.open
    /\ window.events # <<>>
    /\ Head(window.events).signal = "upload_error"
    /\ window' = [window EXCEPT !.upload_btn = TRUE, !.events = Tail(@)]
    /\ UNCHANGED <<storeVars, canvas>>

ClientInit ==
    /\ Store(0)
    /\ canvas = NoCanvas
    /\ window = NewWindow

ClientNext ==
    \/ browse_file
    \/ upload_file
    \/ run
    \/ on_upload_complete
    \/ on_upload_error

ClientSpec == ClientInit /\ [][ClientNext]_vars

----------------------------------------------------------------------------
(* Vocabulary of the properties *)

Reverse(q) == [i \in DOMAIN q |-> q[Len(q) + 1 - i]]

UploadEnded(p) == req[p].op = "upload" /\ pc[p] \in {"done", "failed"}

\* the position the request was at when it ended
LastStep(p) == IF Len(trace[p]) >= 2 THEN trace[p][Len(trace[p]) - 1] ELSE "none"

InodesStored == {f.ino : f \in files}

PersistLabels == {"persist_file", "persist_meta", "persist_rows"}
PruneLabels == {"prune_enum", "prune_file", "prune_row"}

\* the state of the upload pipeline a position of the handler belongs to
Phase(label) ==
    CASE label = "receiving" -> "ReceivingFile"
      [] label = "validating" -> "Validating"
      [] label = "aggregating" -> "Aggregating"
      [] label \in PersistLabels -> "Persisting"
      [] label \in PruneLabels \cup {"respond"} -> "Pruning"
      [] label = "done" -> "Done"
      [] label = "failed" -> "Failed"

Rank(phase) ==
    CASE phase = "ReceivingFile" -> 1
      [] phase = "Validating" -> 2
      [] phase = "Aggregating" -> 3
      [] phase = "Persisting" -> 4
      [] phase = "Pruning" -> 5
      [] phase = "Done" -> 6
      [] phase = "Failed" -> 7

\* the uploaded file is one the validation is to refuse
HasBadCell(csv) == \E c \in Cells(csv) : c.kind # "num"
Invalid(f) ==
    \/ ~f.present
    \/ ~EndsWith(f.name, CsvSuffix)
    \/ ~f.csv.empty /\ MissingCols(f.csv) # <<>>
    \/ ~f.csv.empty /\ MissingCols(f.csv) = <<>> /\ HasBadCell(f.csv)

\* a file with the required header and no data row
HeaderOnlyFile(f) ==
    /\ f.present /\ EndsWith(f.name, CsvSuffix)
    /\ ~f.csv.empty /\ MissingCols(f.csv) = <<>> /\ f.csv.rows = <<>>

----------------------------------------------------------------------------
\* C1 (as stated): whenever no request is in progress, at most 5 datasets
\* are stored.  Stated for the states in which every stored dataset has all
\* its records, so that the excess is not the row a failed insert left.
C1_AtMostFiveWhenIdle ==
    (Quiescent /\ \A d \in datasets : d.total_count = Cardinality(EquipmentsOf(d.id)))
        => Cardinality(datasets) <= KEEP

\* C1 (amended): every upload answered 201 leaves at most 5 datasets, also
\* when earlier failed uploads left more than 5 behind.
C1_SuccessfulUploadLeavesAtMostFive ==
    \A p \in Procs :
        (req[p].op = "upload" /\ pc[p] = "done") => Cardinality(datasets) <= KEEP

\* an upload answered 201 that found 6 datasets, made a seventh and pruned two
C1_Witness ==
    \E p \in Procs :
        /\ req[p].op = "upload" /\ pc[p] = "done"
        /\ Cardinality(pre[p].datasets) = KEEP + 1
        /\ Cardinality(datasets) = KEEP

----------------------------------------------------------------------------
\* C2: after n uploads in sequence, all answered 201, the stored datasets are
\* exactly the min(n, 5) last created, the history listing returns them
\* newest first, and the file written for every other one is gone from the
\* storage.
C2_KeepsNewestFive ==
    LET n == Len(uploads)
        kept == SubSeq(uploads, SeqMax(1, n - KEEP + 1), n)
        pruned == SubSeq(uploads, 1, SeqMax(0, n - KEEP))
    IN  (clean /\ Quiescent) =>
          /\ Len(kept) = SeqMin(n, KEEP)
          /\ datasets = {kept[i].row : i \in DOMAIN kept}
          /\ \A i \in DOMAIN kept : kept[i].ino \in InodesStored
          /\ \A i \in DOMAIN pruned : pruned[i].ino \notin InodesStored
          /\ \A p \in Procs :
               req[p].op = "history" =>
                 /\ resp[p].status = 200
                 /\ resp[p].body =
                      [i \in DOMAIN kept |-> DatasetSummarySerializer(Reverse(kept)[i].row)]

\* the history listing after a sixth upload pruned the first dataset
C2_Witness ==
    /\ clean /\ Quiescent
    /\ Len(uploads) = KEEP + 1
    /\ \E p \in Procs : req[p].op = "history" /\ Len(resp[p].body) = KEEP

----------------------------------------------------------------------------
\* C3: an upload refused for its file (no file, a name not ending in .csv, a
\* required column missing, a cell of a numeric column that is no number)
\* leaves the datasets, the records and the stored files as they were.
\* Stated for the runs in which no storage or database error was raised.
C3_InvalidUploadPersistsNothing ==
    \A p \in Procs :
        (UploadEnded(p) /\ pc[p] = "failed" /\ Invalid(req[p].file) /\ faults = 0)
            => Snapshot = pre[p]

----------------------------------------------------------------------------
\* C4: the upload of a file with the required header and no data row is
\* answered with the empty-input error and persists nothing.  Stated for the
\* runs in which no storage or database error was raised.
C4_HeaderOnlyIsEmptyInput ==
    \A p \in Procs :
        (UploadEnded(p) /\ HeaderOnlyFile(req[p].file) /\ faults = 0)
            => /\ pc[p] = "failed"
               /\ resp[p].error = "CSV file is empty"
               /\ Snapshot = pre[p]

----------------------------------------------------------------------------
\* C5: an upload whose pruning raised, after the dataset and its records
\* were persisted, is answered 201 with the created dataset.
C5_PruneFailureStillSuccess ==
    \A p \in Procs :
        (UploadEnded(p) /\ LastStep(p) \in {"prune_file", "prune_row"})
            => resp[p].status = 201

----------------------------------------------------------------------------
\* C6: an upload whose persistence raised part-way is answered as failed and
\* leaves no dataset row, no record and no file of that upload.
C6_FailedPersistLeavesNothing ==
    \A p \in Procs :
        (UploadEnded(p) /\ LastStep(p) \in PersistLabels)
            => /\ pc[p] = "failed"
               /\ resp[p].status = 400
               /\ Snapshot = pre[p]

----------------------------------------------------------------------------
\* C7: an upload goes through ReceivingFile, Validating, Aggregating,
\* Persisting, Pruning, Done in that order, never back, and ends in Done or
\* Failed; it is in Pruning only with its dataset row and all its records
\* inserted, and an upload that never reached Pruning deleted nothing.
C7_Pipeline ==
    \A p \in Procs :
        req[p].op = "upload" =>
            LET t == trace[p]
                ph(i) == Phase(t[i])
                pruning == \E i \in DOMAIN t : ph(i) = "Pruning"
            IN  /\ t # <<>> /\ ph(1) = "ReceivingFile"
                /\ \A i \in 1..(Len(t) - 1) :
                     /\ ph(i) \notin {"Done", "Failed"}
                     /\ \/ ph(i + 1) = "Failed"
                        \/ Rank(ph(i + 1)) \in {Rank(ph(i)), Rank(ph(i)) + 1}
                /\ Resting(p) => ph(Len(t)) \in {"Done", "Failed"}
                /\ pruning =>
                     \E d \in datasets :
                        /\ d.id \notin {x.id : x \in pre[p].datasets}
                        /\ Cardinality(EquipmentsOf(d.id)) = Len(req[p].file.csv.rows)
                /\ ~pruning =>
                     /\ pre[p].datasets \subseteq datasets
                     /\ pre[p].equipments \subseteq equipments
                     /\ pre[p].files \subseteq files

\* an upload into a full store that failed while persisting: nothing pruned
C7_Witness ==
    \E p \in Procs :
        /\ UploadEnded(p) /\ pc[p] = "failed"
        /\ LastStep(p) = "persist_rows"
        /\ Cardinality(pre[p].datasets) = KEEP
        /\ Cardinality(datasets) = KEEP + 1

----------------------------------------------------------------------------
\* C8: whenever no request is in progress, the total_count of every stored
\* dataset is the number of records that reference it.  Stated for the
\* dataset an upload has just created, in the runs in which no storage or
\* database error was raised.
C8_RowCountMatchesRecords ==
    \A p \in Procs :
        (Quiescent /\ UploadEnded(p) /\ faults = 0)
            => \A d \in datasets :
                  d.id \notin {x.id : x \in pre[p].datasets}
                      => d.total_count = Cardinality(EquipmentsOf(d.id))

----------------------------------------------------------------------------
\* C9: a dataset removed by the pruning of an upload or by a delete request
\* is removed with its records and its stored file.
C9_LifecycleEndRemovesAll ==
    \A p \in Procs :
        ((req[p].op = "upload" /\ pc[p] = "done")
            \/ (req[p].op = "destroy" /\ resp[p].status = 204))
        => \A d \in pre[p].datasets :
              d.id \notin Ids => (~Exists(d.file) /\ EquipmentsOf(d.id) = {})

----------------------------------------------------------------------------
\* C10: no step changes the name, the row count or a mean of a dataset that
\* stays stored.
C10_Immutable ==
    [][\A d \in datasets : \A e \in datasets' :
          d.id = e.id =>
            /\ e.name = d.name
            /\ e.total_count = d.total_count
            /\ e.avg_flowrate = d.avg_flowrate
            /\ e.avg_pressure = d.avg_pressure
            /\ e.avg_temperature = d.avg_temperature]_vars

----------------------------------------------------------------------------
\* C11: in every state, in the middle of a request too, the dataset key of
\* every equipment record is the key of a stored dataset: the records of an
\* upload are inserted after its dataset row, and the step that deletes a
\* dataset row (pruning or a delete request) deletes its records with it.
C11_RecordsResolve ==
    /\ \A e \in equipments : e.dataset \in Ids
    /\ \A p \in Procs :
         pc[p] \in {"validating", "aggregating", "persist_file", "persist_meta"}
            => \A e \in equipments : e.dataset \in {d.id : d \in pre[p].datasets}

\* a dataset that had records was deleted, by the pruning of an upload or by
\* a delete request
C11_Witness ==
    \E p \in Procs :
        /\ \/ req[p].op = "upload" /\ pc[p] = "done"
           \/ req[p].op = "destroy" /\ resp[p].status = 204
        /\ \E e \in pre[p].equipments : e.dataset \notin Ids

----------------------------------------------------------------------------
\* C12: the pruning of an upload that finds 5 or fewer datasets stored
\* deletes no dataset, no record and no file: the step that evaluates the
\* old datasets leaves the three collections as they are and goes on to the
\* response (or fails on the query), never to a delete, and the upload ends
\* with every dataset it found.
C12_PruneNoOp ==
    [][\A p \in Procs :
          (pc[p] = "prune_enum" /\ Cardinality(datasets) <= KEEP)
            => /\ datasets' = datasets
               /\ equipments' = equipments
               /\ files' = files
               /\ pc'[p] \in {"respond", "failed"}
               /\ deleted'[p] = {}]_vars

\* the pruning found exactly 5 datasets, the new one among them, and went on
\* to the response
C12_Witness ==
    \E p \in Procs :
        /\ pc[p] = "respond"
        /\ Len(trace[p]) > 1 /\ trace[p][Len(trace[p]) - 1] = "prune_enum"
        /\ Cardinality(datasets) = KEEP
        /\ datasets # pre[p].datasets
        /\ pre[p].datasets \subseteq datasets

----------------------------------------------------------------------------
(* Vocabulary of C13 *)

\* a file that reaches the column check with a required column not among
\* the names of its header
LacksColumn(f) ==
    /\ f.present /\ EndsWith(f.name, CsvSuffix) /\ ~f.csv.empty
    /\ \E i \in DOMAIN required_cols : required_cols[i] \notin Range(f.csv.header)

\* m lists exactly the required columns that are not header names, in the
\* order of the required columns
ExactlyTheAbsent(m, header) ==
    /\ \A c \in Range(required_cols) : c \in Range(m) <=> c \notin Range(header)
    /\ \A c \in Range(m) : c \in Range(required_cols)
    /\ \A i, j \in DOMAIN m :
         i < j => IndexOf(required_cols, m[i]) < IndexOf(required_cols, m[j])

----------------------------------------------------------------------------
(* Vocabulary of C14 *)

\* a file that passes every check: a .csv name, the required columns, at
\* least one row, a number in every cell of the numeric columns
ValidFile(f) ==
    /\ f.present /\ EndsWith(f.name, CsvSuffix) /\ ~f.csv.empty
    /\ \A c \in Range(required_cols) : c \in Range(f.csv.header)
    /\ f.csv.rows # <<>>
    /\ \A x \in Cells(f.csv) : x.kind = "num"

\* the cell of row i under the first column named c
CellAt(csv, i, c) ==
    LET k == CHOOSE j \in DOMAIN csv.header :
                /\ csv.header[j] = c
                /\ \A l \in 1..(j - 1) : csv.header[l] # c
    IN  csv.rows[i][k]

\* the sum of column c over the first k rows
RECURSIVE Total(_, _, _)
Total(csv, c, k) == IF k = 0 THEN 0 ELSE CellAt(csv, k, c).val + Total(csv, c, k - 1)

\* the float m is total / k
IsQuotient(m, total, k) == m.den # 0 /\ m.num * k = total * m.den

\* C14: the upload of a valid file of K >= 1 rows answered 201 has stored one
\* new dataset with total_count K, K records that carry the name, the type
\* and the three values of the rows in row order, and for each numeric
\* column a mean equal to the column's sum divided by K; the response
\* carries the same dataset.
C14_CountsAndMeans ==
    \A p \in Procs :
        (req[p].op = "upload" /\ pc[p] = "done" /\ ValidFile(req[p].file))
            => LET csv == req[p].file.csv
                   K == Len(csv.rows)
                   created == {d \in datasets : d.id \notin {x.id : x \in pre[p].datasets}}
               IN  /\ Cardinality(created) = 1
                   /\ \A d \in created :
                        LET es == BySeq(EquipmentsOf(d.id)) IN
                        /\ d.total_count = K
                        /\ Len(es) = K
                        /\ Cardinality(EquipmentsOf(d.id)) = K
                        /\ \A i \in 1..K :
                             /\ es[i].name = CellAt(csv, i, "Equipment Name").val
                             /\ es[i].type = CellAt(csv, i, "Type").val
                             /\ es[i].flowrate = Float(CellAt(csv, i, "Flowrate").val)
                             /\ es[i].pressure = Float(CellAt(csv, i, "Pressure").val)
                             /\ es[i].temperature = Float(CellAt(csv, i, "Temperature").val)
                        /\ IsQuotient(d.avg_flowrate, Total(csv, "Flowrate", K), K)
                        /\ IsQuotient(d.avg_pressure, Total(csv, "Pressure", K), K)
                        /\ IsQuotient(d.avg_temperature, Total(csv, "Temperature", K), K)
                        /\ resp[p].status = 201
                        /\ resp[p].body = <<DatasetDetailSerializer(d)>>

\* a three-row file was stored with a mean that is no whole number
C14_Witness ==
    \E p \in Procs :
        /\ req[p].op = "upload" /\ pc[p] = "done" /\ ValidFile(req[p].file)
        /\ Len(req[p].file.csv.rows) = 3
        /\ \E d \in datasets :
              /\ d.id \notin {x.id : x \in pre[p].datasets}
              /\ d.avg_flowrate = [num |-> 40, den |-> 3]
              /\ Cardinality(EquipmentsOf(d.id)) = 3

----------------------------------------------------------------------------
(* Vocabulary of C15 *)

RECURSIVE SumOver(_, _)
SumOver(f, S) ==
    IF S = {} THEN 0 ELSE LET t == CHOOSE x \in S : TRUE IN f[t] + SumOver(f, S \ {t})

\* C15: the type distribution of a summary answered 200 has as keys exactly
\* the types of the dataset's records, for each the number of records of
\* that type, at least 1, and the counts add up to the number of records.
C15_TypeDistribution ==
    \A p \in Procs :
        (req[p].op = "summary" /\ resp[p].status = 200)
            => LET dist == resp[p].body[1].type_distribution
                   recs == EquipmentsOf(req[p].id)
               IN  /\ DOMAIN dist = {e.type : e \in recs}
                   /\ \A t \in DOMAIN dist :
                        /\ dist[t] = Cardinality({e \in recs : e.type = t})
                        /\ dist[t] >= 1
                   /\ SumOver(dist, DOMAIN dist) = Cardinality(recs)

\* the summary of a dataset of two pumps and a valve
C15_Witness ==
    \E p \in Procs :
        /\ req[p].op = "summary" /\ resp[p].status = 200
        /\ DOMAIN resp[p].body[1].type_distribution = {"Pump", "Valve"}
        /\ resp[p].body[1].type_distribution["Pump"] = 2
        /\ resp[p].body[1].type_distribution["Valve"] = 1

----------------------------------------------------------------------------
\* C17: the pruning of an upload deletes the stored file of an old dataset
\* before its row: a delete of the row comes straight after the delete of
\* its file, and in every state of the upload, also one it was interrupted
\* in, a dataset it found and whose row is gone has no stored file left.
C17_FileBeforeMetadata ==
    \A p \in Procs :
        req[p].op = "upload" =>
            /\ \A i \in DOMAIN trace[p] :
                 trace[p][i] = "prune_row" => (i > 1 /\ trace[p][i - 1] = "prune_file")
            /\ \A d \in pre[p].datasets :
                 d.id \notin Ids =>
                    \A f \in pre[p].files :
                        (f.name = d.file.name /\ f.n = d.file.n) => f \notin files

\* the pruning was interrupted between the two deletes: the file of an old
\* dataset is gone from the storage, its row is still stored
C17_Witness ==
    \E p \in Procs :
        /\ UploadEnded(p) /\ pc[p] = "failed" /\ LastStep(p) = "prune_row"
        /\ \E d \in pre[p].datasets :
              /\ d.id \in Ids
              /\ \E f \in pre[p].files :
                    f.name = d.file.name /\ f.n = d.file.n /\ f \notin files

----------------------------------------------------------------------------
(* Vocabulary of C16 *)

\* every dataset the two requests found or that is stored now
Known == datasets \cup UNION {pre[p].datasets : p \in Procs}

\* the keys of the (at most) 5 newest datasets of S
Newest(S) ==
    {d.id : d \in {x \in S : Cardinality({y \in S : y.uploaded_at > x.uploaded_at}) < KEEP}}

\* C16: of two uploads handled concurrently no dataset is deleted by the
\* pruning of both, and once both are answered 201 at most 5 datasets are
\* stored, the 5 newest among them.
C16_ConcurrentPrunes ==
    /\ \A p, q \in Procs : p # q => deleted[p] \cap deleted[q] = {}
    /\ (\A p \in Procs : req[p].op = "upload" /\ pc[p] = "done")
          => /\ Cardinality(datasets) <= KEEP
             /\ Newest(Known) \subseteq Ids

----------------------------------------------------------------------------
(* Vocabulary of C18 *)

\* a line of 8 point text stands less than 3 twentieths of an inch above its
\* baseline
RowAscent == 3

\* C18: every equipment row of the report is drawn on the page being drawn,
\* with its baseline at or above 1 inch from the bottom edge and the whole
\* line below the top edge, for every number of records and of types; the
\* saved report has every row of the dataset, none for a dataset without
\* records, and ends with the footer.
C18_RowsOnPage ==
    /\ canvas.last.kind = "row" =>
          /\ canvas.last.y >= inch
          /\ canvas.last.y + RowAscent <= height
          /\ canvas.last.page = canvas.page
          /\ canvas.y = canvas.last.y - Tenths(2)
    /\ canvas.pc = "saved" =>
          /\ canvas.drawn = canvas.count
          /\ canvas.last.kind = "footer"
          /\ canvas.count = 0 => canvas.page \in {1, 2}

\* the first row of a third page: the table started on the second page and
\* the rows filled it
C18_Witness ==
    /\ canvas.last.kind = "row"
    /\ canvas.last.page = 3
    /\ canvas.last.y = height - inch
    /\ canvas.drawn > 1

----------------------------------------------------------------------------
(* Vocabulary of C19 *)

\* the uploads started whose outcome has not been handled yet
InFlight ==
    {t \in DOMAIN window.threads :
        \/ window.threads[t].state = "running"
        \/ \E i \in DOMAIN window.events : window.events[i].thread = t}

\* C19: an upload thread of the client emits no signal while it runs and
\* exactly one when it ends; the upload button is disabled while an upload
\* is in flight, and at most one upload is in flight.
C19_OneOutcomeOneUpload ==
    /\ \A t \in DOMAIN window.threads :
         /\ window.threads[t].state = "running" => window.threads[t].emitted = <<>>
         /\ window.threads[t].state = "finished" => Len(window.threads[t].emitted) = 1
    /\ InFlight # {} => ~window.upload_btn
    /\ Cardinality(InFlight) <= 1

====
